---- MODULE Spec2Model ----
(***************************************************************************)
(* State-machine model of BattleManager                                    *)
(* (src/src/game/managers/battle_manager.py) together with the Hero        *)
(* methods it calls (src/hero.py).  One action per public method; every    *)
(* action is the whole method, including the monster turn it resolves.     *)
(***************************************************************************)
EXTENDS Integers, Sequences, FiniteSets, TLC

(* ---------------------------------------------------------------------- *)
(* Bounds of the model (not program constants)                             *)
(* ---------------------------------------------------------------------- *)
MaxLog == 4
HeroMaxHp == 7
MaxEnergy == 2
MaxEffectAmount == 1

(* ---------------------------------------------------------------------- *)
(* Program constants                                                       *)
(* ---------------------------------------------------------------------- *)
HealAmount == 5
PotionDamageBonus == 3
PotionBlockBonus == 2
LevelHpBonus == 5
LevelExpFactor == 10
InitHealthPotions == 2
InitDamagePotions == 1
InitBlockPotions == 1

HERO_TURN == "HERO_TURN"
MONSTER_TURN == "MONSTER_TURN"
TurnState == {HERO_TURN, MONSTER_TURN}

HOME == "HOME"
USE_ITEM == "USE_ITEM"
USE_ABILITY == "USE_ABILITY"
RUN_AWAY == "RUN_AWAY"
MONSTER_DEFEATED == "MONSTER_DEFEATED"
BattleState == {HOME, USE_ITEM, USE_ABILITY, RUN_AWAY, MONSTER_DEFEATED}

PotionNames == {"Health Potion", "Damage Potion", "Block Potion"}

(* the named buttons of the battle screen that update_button_states drives *)
CombatButtons == {"Ability", "Rest", "Potion", "Flee"}
VictoryButtons == {"Continue", "Retreat"}

Max(a, b) == IF a >= b THEN a ELSE b
Min(a, b) == IF a <= b THEN a ELSE b

(* ---------------------------------------------------------------------- *)
(* Collaborators whose code is outside the sources: monsters, abilities,   *)
(* armour, Combatant                                                       *)
(* ---------------------------------------------------------------------- *)
NoMonster == [present |-> FALSE, name |-> "None", hp |-> 0, damage |-> 0,
              experience |-> 0, gold |-> 0]

Monsters ==
    { [present |-> TRUE, name |-> "Goblin", hp |-> 2, damage |-> 1,
       experience |-> 5, gold |-> 1],
      [present |-> TRUE, name |-> "Orc", hp |-> 3, damage |-> 3,
       experience |-> 10, gold |-> 2] }

AbilityNames == {"Fireball", "Shield"}
(* a name the hero does not have, offered to use_ability *)
AbilityArgs == AbilityNames \cup {"Smite"}

Abilities ==
    [a \in AbilityNames |->
        IF a = "Fireball"
        THEN [energy_cost |-> 1, cooldown |-> 2, damage |-> 2, healing |-> 0, block |-> 0]
        ELSE [energy_cost |-> 2, cooldown |-> 1, damage |-> 0, healing |-> 0, block |-> 1]]

(* Effect records an ability use can produce: an attack misses, hits or    *)
(* lands a critical hit (double damage); a defence grants its block.       *)
Effects(a) ==
    IF Abilities[a].damage > 0
    THEN { [damage |-> 0, healing |-> 0, block |-> 0, missed |-> TRUE, critical |-> FALSE],
           [damage |-> Abilities[a].damage, healing |-> 0, block |-> 0,
            missed |-> FALSE, critical |-> FALSE],
           [damage |-> 2 * Abilities[a].damage, healing |-> 0, block |-> 0,
            missed |-> FALSE, critical |-> TRUE] }
    ELSE { [damage |-> 0, healing |-> Abilities[a].healing, block |-> Abilities[a].block,
            missed |-> FALSE, critical |-> FALSE] }

ArmorBlock == 1
RestAmount == 1
(* Armor.calculate_defence: the armour has a block amount, a block chance  *)
(* and a dodge chance; the outcomes are no reduction, a block, a dodge.    *)
ArmorRolls == {"hit", "block", "dodge"}
CalculateDefence(incoming, roll) ==
    CASE roll = "hit" -> incoming
      [] roll = "block" -> Max(0, incoming - ArmorBlock)
      [] OTHER -> 0

(* Combatant.is_alive / Combatant.take_damage *)
IsAlive(c) == c.current_hp > 0
MonsterAlive(m) == m.hp > 0
CombatantTakeDamage(hp, damage) == Max(0, hp - damage)

Msg(kind, who, what, n) == [kind |-> kind, who |-> who, what |-> what, n |-> n]

(* The buttons of the button manager: locked holds the lock of each named   *)
(* button, visible the visibility of the victory buttons (the only named    *)
(* buttons the manager shows or hides), showing_potions the visibility of   *)
(* the three potion buttons (the manager's field of that name mirrors it    *)
(* and is never read), potion_locked their locks, and ability_buttons the   *)
(* hero ability buttons: "absent" when cleared, else "locked" or            *)
(* "unlocked".                                                              *)
InitButtons ==
    [locked |-> [b \in CombatButtons \cup VictoryButtons |-> FALSE],
     visible |-> [b \in VictoryButtons |-> TRUE],
     showing_potions |-> FALSE,
     potion_locked |-> [p \in PotionNames |-> FALSE],
     ability_buttons |-> [a \in AbilityNames |-> "absent"]]

(* ---------------------------------------------------------------------- *)
(* State                                                                   *)
(* ---------------------------------------------------------------------- *)
VARIABLES
    turn,            \* BattleManager.turn
    state,           \* BattleManager.state (the spec's battle_state)
    monster,         \* BattleManager.monster (NoMonster models None)
    hero,            \* BattleManager.hero
    battle_log,      \* BattleManager.battle_log
    button_manager,  \* TRUE once BattleManager.button_manager is set
    encounter        \* history: defeat signals and grants since start_battle

vars == <<turn, state, monster, hero, battle_log, button_manager, encounter>>

(* Hero.__init__ (potion bag, pending bonuses, level, experience); energy  *)
(* and ability cooldowns belong to the hero the battle manager is given.   *)
NewHero(hp, energy, gold) ==
    [name |-> "Hero", current_hp |-> hp, max_hp |-> HeroMaxHp, energy |-> energy,
     level |-> 1, experience |-> 0, gold |-> gold,
     potion_bag |-> [p \in PotionNames |->
                        CASE p = "Health Potion" -> InitHealthPotions
                          [] p = "Damage Potion" -> InitDamagePotions
                          [] OTHER -> InitBlockPotions],
     potion_damage |-> 0, potion_block |-> 0,
     cooldowns |-> [a \in AbilityNames |-> 0]]

(* The program state as one record, with the buttons of the button manager *)
(* as the call finds them (they belong to the user interface, which hands  *)
(* them over in the state InitButtons unless a claim says otherwise) and   *)
(* the observations of a call:                                             *)
(* trace = the values assigned to turn, attacks = monster attacks          *)
(* resolved, dealt = the damage handed to Hero.take_damage, hp_at_attack   *)
(* and block_at_attack = the hero's health and pending block when the      *)
(* monster struck, healed = the hero's health right after Hero.use_potion, *)
(* grants = runs of handle_monster_defeat, used = the ability that         *)
(* resolved, ret / raised = the outcome.                                   *)
World ==
    [turn |-> turn, state |-> state, monster |-> monster, hero |-> hero,
     battle_log |-> battle_log, button_manager |-> button_manager,
     buttons |-> InitButtons,
     trace |-> <<>>, attacks |-> 0, dealt |-> -1, hp_at_attack |-> -1,
     block_at_attack |-> -1, healed |-> -1, grants |-> 0, used |-> "None",
     ret |-> "None", raised |-> FALSE]

(* ---------------------------------------------------------------------- *)
(* Hero (src/hero.py) and the collaborators it relies on                   *)
(* ---------------------------------------------------------------------- *)
(* Hero.take_damage: the armour decides what reaches Combatant.take_damage *)
HeroTakeDamage(h, incoming_damage, roll) ==
    [h EXCEPT !.current_hp =
        CombatantTakeDamage(h.current_hp, CalculateDefence(incoming_damage, roll))]

HasPotions(h) == \E p \in PotionNames : h.potion_bag[p] > 0

HeroUsePotion_NoDecrement(h, potion_name) ==
    IF potion_name \in DOMAIN h.potion_bag /\ h.potion_bag[potion_name] > 0
    THEN CASE potion_name = "Health Potion" ->
                [h EXCEPT !.current_hp =
                    IF h.current_hp + HealAmount > h.max_hp
                    THEN h.max_hp ELSE h.current_hp + HealAmount]
           [] potion_name = "Damage Potion" ->
                [h EXCEPT !.potion_damage = PotionDamageBonus]
           [] potion_name = "Block Potion" ->
                [h EXCEPT !.potion_block = PotionBlockBonus]
           [] OTHER -> h
    ELSE h

HeroUsePotion_Uncapped(h, potion_name) ==
    IF potion_name \in DOMAIN h.potion_bag /\ h.potion_bag[potion_name] > 0
    THEN LET h1 == CASE potion_name = "Health Potion" ->
                        [h EXCEPT !.current_hp = h.current_hp + HealAmount]
                     [] potion_name = "Damage Potion" ->
                        [h EXCEPT !.potion_damage = PotionDamageBonus]
                     [] potion_name = "Block Potion" ->
                        [h EXCEPT !.potion_block = PotionBlockBonus]
                     [] OTHER -> h
         IN [h1 EXCEPT !.potion_bag[potion_name] = @ - 1]
    ELSE h

HeroUsePotion(h, potion_name) ==
    IF potion_name \in DOMAIN h.potion_bag /\ h.potion_bag[potion_name] > 0
    THEN LET h1 == CASE potion_name = "Health Potion" ->
                        [h EXCEPT !.current_hp =
                            IF h.current_hp + HealAmount > h.max_hp
                            THEN h.max_hp ELSE h.current_hp + HealAmount]
                     [] potion_name = "Damage Potion" ->
                        [h EXCEPT !.potion_damage = PotionDamageBonus]
                     [] potion_name = "Block Potion" ->
                        [h EXCEPT !.potion_block = PotionBlockBonus]
                     [] OTHER -> h
         IN [h1 EXCEPT !.potion_bag[potion_name] = @ - 1]
    ELSE h

AddGold(h, amount) == [h EXCEPT !.gold = @ + amount]

LevelUp(h) ==
    LET hp == h.current_hp + LevelHpBonus
    IN [h EXCEPT !.current_hp = hp,
                 !.max_hp = IF hp > h.max_hp THEN hp ELSE h.max_hp,
                 !.level = @ + 1]

GainExperience(h, experience) ==
    LET h1 == [h EXCEPT !.experience = @ + experience]
    IN IF h1.experience >= LevelExpFactor * h1.level
       THEN LevelUp([h1 EXCEPT !.experience = 0])
       ELSE h1

(* Hero.rest, Hero.update_abilities, Ability.can_use, Ability.use *)
HeroRest(h) == [h EXCEPT !.energy = Min(MaxEnergy, @ + RestAmount)]

UpdateAbilities(h) ==
    [h EXCEPT !.cooldowns = [a \in AbilityNames |-> Max(0, h.cooldowns[a] - 1)]]

CanUse(h, a) == h.cooldowns[a] = 0

AbilityUseHero(h, a, effect) ==
    [h EXCEPT !.cooldowns[a] = Abilities[a].cooldown,
              !.current_hp = Min(h.max_hp, @ + effect.healing),
              !.potion_block = @ + effect.block]

AbilityUseMonster(m, effect) ==
    [m EXCEPT !.hp = CombatantTakeDamage(@, effect.damage)]

(* ---------------------------------------------------------------------- *)
(* BattleManager methods, as functions of the world record                 *)
(* ---------------------------------------------------------------------- *)
SetTurn(w, t) == [w EXCEPT !.turn = t, !.trace = Append(@, t)]

Log(w, entries) == [w EXCEPT !.battle_log = @ \o entries]

HasLivingMonster(w) == w.monster.present /\ MonsterAlive(w.monster)

(* button.lock() / unlock() / hide() on each of the named buttons *)
Lock(w, names) ==
    [w EXCEPT !.buttons.locked =
        [b \in DOMAIN @ |-> IF b \in names THEN TRUE ELSE @[b]]]

Unlock(w, names) ==
    [w EXCEPT !.buttons.locked =
        [b \in DOMAIN @ |-> IF b \in names THEN FALSE ELSE @[b]]]

Hide(w, names) ==
    [w EXCEPT !.buttons.visible =
        [b \in DOMAIN @ |-> IF b \in names THEN FALSE ELSE @[b]]]

TogglePotionButtons(w, show) == [w EXCEPT !.buttons.showing_potions = show]

UpdatePotionButtonStates(w) ==
    [w EXCEPT !.buttons.potion_locked =
        [p \in PotionNames |-> ~(w.hero.potion_bag[p] > 0)]]

AbilityButtonState(h, a) ==
    IF h.cooldowns[a] > 0 \/ h.energy < Abilities[a].energy_cost
    THEN "locked" ELSE "unlocked"

(* every ability button that exists is locked or unlocked for its ability *)
UpdateAbilityButtonStates(w) ==
    [w EXCEPT !.buttons.ability_buttons =
        [a \in AbilityNames |->
            IF @[a] = "absent" THEN "absent" ELSE AbilityButtonState(w.hero, a)]]

(* the buttons are cleared; to show them, one is added per ability (new     *)
(* buttons are unlocked) and their states are updated                       *)
ToggleAbilityButtons(w, show) ==
    LET cleared == [w EXCEPT !.buttons.ability_buttons =
                                [a \in AbilityNames |-> "absent"]]
    IN IF show
       THEN UpdateAbilityButtonStates(
                [cleared EXCEPT !.buttons.ability_buttons =
                                    [a \in AbilityNames |-> "unlocked"]])
       ELSE cleared

AttackDamage_Unclamped(w) == w.monster.damage - w.hero.potion_block

(* the damage handle_monster_attack computes after the hero's block *)
AttackDamage(w) == Max(0, w.monster.damage - w.hero.potion_block)

HandleMonsterAttack_NoTurnGuard(w, roll) ==
    IF HasLivingMonster(w)
    THEN LET damage == AttackDamage(w)
             h1 == HeroTakeDamage(w.hero, damage, roll)
             attack == Msg("attacks", w.monster.name, w.hero.name, damage)
             entries == IF h1.potion_block > 0
                        THEN <<Msg("blocks", w.hero.name, "", h1.potion_block), attack>>
                        ELSE <<attack>>
             w1 == Log([w EXCEPT !.hero = [h1 EXCEPT !.potion_block = 0],
                                 !.attacks = @ + 1,
                                 !.dealt = damage,
                                 !.hp_at_attack = w.hero.current_hp,
                                 !.block_at_attack = w.hero.potion_block],
                       entries)
         IN SetTurn(w1, HERO_TURN)
    ELSE w

HandleMonsterAttack_KeepsTurn(w, roll) ==
    IF w.turn # MONSTER_TURN THEN w
    ELSE IF HasLivingMonster(w)
    THEN LET damage == AttackDamage(w)
             h1 == HeroTakeDamage(w.hero, damage, roll)
             attack == Msg("attacks", w.monster.name, w.hero.name, damage)
             entries == IF h1.potion_block > 0
                        THEN <<Msg("blocks", w.hero.name, "", h1.potion_block), attack>>
                        ELSE <<attack>>
         IN Log([w EXCEPT !.hero = [h1 EXCEPT !.potion_block = 0],
                          !.attacks = @ + 1,
                          !.dealt = damage,
                          !.hp_at_attack = w.hero.current_hp,
                          !.block_at_attack = w.hero.potion_block],
                entries)
    ELSE w

HandleMonsterAttack(w, roll) ==
    IF w.turn # MONSTER_TURN THEN w
    ELSE IF HasLivingMonster(w)
    THEN LET damage == AttackDamage(w)
             h1 == HeroTakeDamage(w.hero, damage, roll)
             attack == Msg("attacks", w.monster.name, w.hero.name, damage)
             entries == IF h1.potion_block > 0
                        THEN <<Msg("blocks", w.hero.name, "", h1.potion_block), attack>>
                        ELSE <<attack>>
             w1 == Log([w EXCEPT !.hero = [h1 EXCEPT !.potion_block = 0],
                                 !.attacks = @ + 1,
                                 !.dealt = damage,
                                 !.hp_at_attack = w.hero.current_hp,
                                 !.block_at_attack = w.hero.potion_block],
                       entries)
         IN SetTurn(w1, HERO_TURN)
    ELSE w

StartMonsterTurn_Deferred(w, roll) == w

StartMonsterTurn(w, roll) ==
    IF HasLivingMonster(w) THEN HandleMonsterAttack(w, roll) ELSE w

StartBattle_KeepsTurn(w, m) ==
    LET w1 == [w EXCEPT !.monster = m, !.state = HOME]
    IN Log(w1, <<Msg("appears", m.name, "", 0)>>)

StartBattle_NewLog(w, m) ==
    LET w1 == [w EXCEPT !.monster = m, !.state = HOME, !.battle_log = <<>>]
    IN Log(SetTurn(w1, HERO_TURN), <<Msg("appears", m.name, "", 0)>>)

StartBattle(w, m) ==
    LET w1 == [w EXCEPT !.monster = m, !.state = HOME]
    IN Log(SetTurn(w1, HERO_TURN), <<Msg("appears", m.name, "", 0)>>)

HandleMonsterDefeat_NoTransition(w) ==
    IF ~w.monster.present THEN w
    ELSE LET w1 == Log(w, <<Msg("defeated", w.monster.name, "", 0),
                            Msg("gains", w.hero.name, "", w.monster.experience)>>)
             h1 == AddGold(GainExperience(w.hero, w.monster.experience), w.monster.gold)
         IN [w1 EXCEPT !.hero = h1, !.grants = @ + 1]

HandleMonsterDefeat(w) ==
    IF ~w.monster.present THEN w
    ELSE LET w1 == Log(w, <<Msg("defeated", w.monster.name, "", 0),
                            Msg("gains", w.hero.name, "", w.monster.experience)>>)
             h1 == AddGold(GainExperience(w.hero, w.monster.experience), w.monster.gold)
         IN [w1 EXCEPT !.hero = h1, !.state = MONSTER_DEFEATED, !.grants = @ + 1]

UpdateBattleState(w) ==
    IF w.state # MONSTER_DEFEATED
    THEN IF IsAlive(w.hero)
         THEN IF ~w.monster.present
              THEN [w EXCEPT !.raised = TRUE]  \* None has no is_alive
              ELSE IF ~MonsterAlive(w.monster)
                   THEN [HandleMonsterDefeat(w) EXCEPT !.ret = "True"]
                   ELSE w
         ELSE [w EXCEPT !.ret = "False"]
    ELSE w

(* both submenus hidden or shown, as update_button_states does in a row *)
ToggleSubmenus(w, potions, abilities) ==
    ToggleAbilityButtons(TogglePotionButtons(w, potions), abilities)

(* update_button_states: stores the button manager, sets the buttons for   *)
(* the branch the turn and the battle state select, and on the monster's   *)
(* turn outside MONSTER_DEFEATED starts the monster turn.                  *)
UpdateButtonStates(w, roll) ==
    LET w1 == [w EXCEPT !.button_manager = TRUE]
    IN IF w1.state = MONSTER_DEFEATED
       THEN ToggleSubmenus(Unlock(Lock(w1, CombatButtons), VictoryButtons), FALSE, FALSE)
       ELSE LET w2 == Hide(Lock(w1, VictoryButtons), VictoryButtons)
            IN IF w2.turn = MONSTER_TURN
               THEN StartMonsterTurn(
                        ToggleSubmenus(Lock(w2, CombatButtons), FALSE, FALSE), roll)
               ELSE CASE w2.state = HOME ->
                           LET w3 == Unlock(w2, {"Ability", "Rest", "Flee"})
                               w4 == IF HasPotions(w3.hero)
                                     THEN Unlock(w3, {"Potion"})
                                     ELSE Lock(w3, {"Potion"})
                           IN ToggleSubmenus(w4, FALSE, FALSE)
                      [] w2.state = USE_ABILITY ->
                           ToggleSubmenus(Lock(w2, {"Rest", "Potion", "Flee"}),
                                          FALSE, TRUE)
                      [] w2.state = USE_ITEM ->
                           ToggleSubmenus(Lock(w2, {"Ability", "Rest", "Flee"}),
                                          TRUE, FALSE)
                      [] OTHER -> w2

HandleRest_NoTurnGuard(w, roll) ==
    LET w1 == Log([w EXCEPT !.hero = HeroRest(@)],
                  <<Msg("rests", w.hero.name, "", 0)>>)
        w2 == SetTurn([w1 EXCEPT !.state = HOME], MONSTER_TURN)
    IN IF HasLivingMonster(w2) THEN StartMonsterTurn(w2, roll) ELSE w2

HandleRest_KeepsMenu(w, roll) ==
    IF w.turn # HERO_TURN THEN w
    ELSE LET w1 == Log([w EXCEPT !.hero = HeroRest(@)],
                       <<Msg("rests", w.hero.name, "", 0)>>)
             w2 == SetTurn(w1, MONSTER_TURN)
         IN IF HasLivingMonster(w2) THEN StartMonsterTurn(w2, roll) ELSE w2

HandleRest(w, roll) ==
    IF w.turn # HERO_TURN THEN w
    ELSE LET w1 == Log([w EXCEPT !.hero = HeroRest(@)],
                       <<Msg("rests", w.hero.name, "", 0)>>)
             w2 == SetTurn([w1 EXCEPT !.state = HOME], MONSTER_TURN)
         IN IF HasLivingMonster(w2) THEN StartMonsterTurn(w2, roll) ELSE w2

HandleUsePotion_NoGate(w) ==
    IF w.turn # HERO_TURN THEN w
    ELSE IF w.state = USE_ITEM
         THEN TogglePotionButtons([w EXCEPT !.state = HOME], FALSE)
         ELSE UpdatePotionButtonStates(
                  TogglePotionButtons([w EXCEPT !.state = USE_ITEM], TRUE))

HandleUsePotion_TakesTurn(w) ==
    IF w.turn # HERO_TURN \/ ~w.button_manager THEN w
    ELSE IF w.state = USE_ITEM
         THEN SetTurn(TogglePotionButtons([w EXCEPT !.state = HOME], FALSE),
                      MONSTER_TURN)
         ELSE UpdatePotionButtonStates(
                  TogglePotionButtons([w EXCEPT !.state = USE_ITEM], TRUE))

HandleUsePotion(w) ==
    IF w.turn # HERO_TURN \/ ~w.button_manager THEN w
    ELSE IF w.state = USE_ITEM
         THEN TogglePotionButtons([w EXCEPT !.state = HOME], FALSE)
         ELSE UpdatePotionButtonStates(
                  TogglePotionButtons([w EXCEPT !.state = USE_ITEM], TRUE))

UsePotion(w, potion_name, roll) ==
    IF w.turn # HERO_TURN \/ w.state # USE_ITEM \/ ~w.button_manager THEN w
    ELSE LET h1 == HeroUsePotion(w.hero, potion_name)
             w1 == Log([w EXCEPT !.hero = h1, !.healed = h1.current_hp],
                       <<Msg("used", w.hero.name, potion_name, 0)>>)
             w2 == SetTurn([TogglePotionButtons(w1, FALSE) EXCEPT !.state = HOME],
                           MONSTER_TURN)
         IN IF HasLivingMonster(w2) THEN StartMonsterTurn(w2, roll) ELSE w2

HandleFlee_NoTurnGuard(w) == [w EXCEPT !.state = RUN_AWAY, !.ret = "True"]

HandleFlee_TakesTurn(w) ==
    IF w.turn # HERO_TURN THEN [w EXCEPT !.ret = "False"]
    ELSE SetTurn([w EXCEPT !.state = RUN_AWAY, !.ret = "True"], MONSTER_TURN)

HandleFlee(w) ==
    IF w.turn # HERO_TURN THEN [w EXCEPT !.ret = "False"]
    ELSE [w EXCEPT !.state = RUN_AWAY, !.ret = "True"]

EffectMessage_DamageFirst(w, ability_name, effect) ==
    IF effect.damage > 0
         THEN <<Msg("dealing", w.hero.name, ability_name, effect.damage)>>
    ELSE IF effect.missed THEN <<Msg("missed", w.hero.name, ability_name, 0)>>
    ELSE IF effect.critical
         THEN <<Msg("critical", w.hero.name, ability_name, effect.damage)>>
    ELSE IF effect.healing > 0
         THEN <<Msg("restoring", w.hero.name, ability_name, effect.healing)>>
    ELSE IF effect.block > 0
         THEN <<Msg("gaining", w.hero.name, ability_name, effect.block)>>
    ELSE <<>>

(* the message use_ability logs for an Effect, <<>> when no branch fits *)
EffectMessage(w, ability_name, effect) ==
    IF effect.missed THEN <<Msg("missed", w.hero.name, ability_name, 0)>>
    ELSE IF effect.critical
         THEN <<Msg("critical", w.hero.name, ability_name, effect.damage)>>
    ELSE IF effect.damage > 0
         THEN <<Msg("dealing", w.hero.name, ability_name, effect.damage)>>
    ELSE IF effect.healing > 0
         THEN <<Msg("restoring", w.hero.name, ability_name, effect.healing)>>
    ELSE IF effect.block > 0
         THEN <<Msg("gaining", w.hero.name, ability_name, effect.block)>>
    ELSE <<>>

AbilityRequirement_EnergyFirst(w, ability_name) ==
    IF ability_name \notin AbilityNames THEN "unknown"
    ELSE IF w.hero.energy < Abilities[ability_name].energy_cost THEN "energy"
    ELSE IF ~CanUse(w.hero, ability_name) THEN "cooldown"
    ELSE "ok"

(* the lookup of the ability and its requirements: the first ability of     *)
(* that name is checked for its cooldown, then for the hero's energy        *)
AbilityRequirement(w, ability_name) ==
    IF ability_name \notin AbilityNames THEN "unknown"
    ELSE IF ~CanUse(w.hero, ability_name) THEN "cooldown"
    ELSE IF w.hero.energy < Abilities[ability_name].energy_cost THEN "energy"
    ELSE "ok"

ResolveAbility_TurnBackOnKill(w, ability_name, effect, roll) ==
    LET h1 == AbilityUseHero(w.hero, ability_name, effect)
        m1 == AbilityUseMonster(w.monster, effect)
        h2 == [h1 EXCEPT !.energy = @ - Abilities[ability_name].energy_cost]
        w1 == Log([w EXCEPT !.hero = h2, !.monster = m1, !.used = ability_name],
                  EffectMessage(w, ability_name, effect))
        w2 == [ToggleAbilityButtons(w1, FALSE) EXCEPT !.hero = UpdateAbilities(@)]
        w3 == SetTurn([w2 EXCEPT !.state = HOME], MONSTER_TURN)
    IN IF MonsterAlive(w3.monster)
       THEN StartMonsterTurn(w3, roll) ELSE SetTurn(w3, HERO_TURN)

ResolveAbility_NoTick(w, ability_name, effect, roll) ==
    LET h1 == AbilityUseHero(w.hero, ability_name, effect)
        m1 == AbilityUseMonster(w.monster, effect)
        h2 == [h1 EXCEPT !.energy = @ - Abilities[ability_name].energy_cost]
        w1 == Log([w EXCEPT !.hero = h2, !.monster = m1, !.used = ability_name],
                  EffectMessage(w, ability_name, effect))
        w3 == SetTurn([ToggleAbilityButtons(w1, FALSE) EXCEPT !.state = HOME],
                      MONSTER_TURN)
    IN IF MonsterAlive(w3.monster) THEN StartMonsterTurn(w3, roll) ELSE w3

(* the ability is used: effect, energy, message, cooldown tick, turn *)
ResolveAbility(w, ability_name, effect, roll) ==
    LET h1 == AbilityUseHero(w.hero, ability_name, effect)
        m1 == AbilityUseMonster(w.monster, effect)
        h2 == [h1 EXCEPT !.energy = @ - Abilities[ability_name].energy_cost]
        w1 == Log([w EXCEPT !.hero = h2, !.monster = m1, !.used = ability_name],
                  EffectMessage(w, ability_name, effect))
        w2 == [ToggleAbilityButtons(w1, FALSE) EXCEPT !.hero = UpdateAbilities(@)]
        w3 == SetTurn([w2 EXCEPT !.state = HOME], MONSTER_TURN)
    IN IF MonsterAlive(w3.monster) THEN StartMonsterTurn(w3, roll) ELSE w3

UseAbility_NoEnergyCheck(w, ability_name, effect, roll) ==
    IF w.turn # HERO_TURN \/ w.state # USE_ABILITY \/ ~w.button_manager THEN w
    ELSE IF ~HasLivingMonster(w) THEN w
    ELSE LET requirement == AbilityRequirement(w, ability_name)
         IN CASE requirement = "cooldown" ->
                    Log(w, <<Msg("cooldown", "", ability_name, 0)>>)
              [] requirement = "unknown" ->
                    Log(w, <<Msg("unknown", w.hero.name, ability_name, 0)>>)
              [] OTHER -> ResolveAbility(w, ability_name, effect, roll)

UseAbility(w, ability_name, effect, roll) ==
    IF w.turn # HERO_TURN \/ w.state # USE_ABILITY \/ ~w.button_manager THEN w
    ELSE IF ~HasLivingMonster(w) THEN w
    ELSE LET requirement == AbilityRequirement(w, ability_name)
         IN CASE requirement = "cooldown" ->
                    Log(w, <<Msg("cooldown", "", ability_name, 0)>>)
              [] requirement = "energy" ->
                    Log(w, <<Msg("energy", "", ability_name, 0)>>)
              [] requirement = "unknown" ->
                    Log(w, <<Msg("unknown", w.hero.name, ability_name, 0)>>)
              [] OTHER -> ResolveAbility(w, ability_name, effect, roll)

(* handle_ability: ability_name "None" is the call without a name *)
HandleAbility(w, ability_name, effect, roll) ==
    IF w.turn # HERO_TURN \/ ~w.button_manager THEN w
    ELSE IF ability_name # "None" THEN UseAbility(w, ability_name, effect, roll)
    ELSE IF w.state = USE_ABILITY
         THEN ToggleAbilityButtons([w EXCEPT !.state = HOME], FALSE)
         ELSE UpdateAbilityButtonStates(
                  ToggleAbilityButtons([w EXCEPT !.state = USE_ABILITY], TRUE))

(* ---------------------------------------------------------------------- *)
(* The state machine: one action per call the game loop can make           *)
(* ---------------------------------------------------------------------- *)
NoEffect == [damage |-> 0, healing |-> 0, block |-> 0, missed |-> FALSE, critical |-> FALSE]

(* The outcomes worth drawing for a call: Ability.use is reached only for  *)
(* a known ability in USE_ABILITY, the armour only under a living monster. *)
EffectsFor(ability_name) ==
    IF ability_name \in AbilityNames /\ state = USE_ABILITY
    THEN Effects(ability_name) ELSE {NoEffect}

RollsFor == IF monster.present /\ MonsterAlive(monster) THEN ArmorRolls ELSE {"hit"}

(* encounter: since the last start_battle, how often update_battle_state   *)
(* signalled the defeat (signals), how often handle_monster_defeat ran      *)
(* (grants), and the hero's gold when the encounter began (gold0)           *)
NewEncounter(h) == [signals |-> 0, grants |-> 0, gold0 |-> h.gold]

(* the call op has taken the world to w *)
Commit(w, op) ==
    /\ Len(w.battle_log) <= MaxLog
    /\ turn' = w.turn
    /\ state' = w.state
    /\ monster' = w.monster
    /\ hero' = w.hero
    /\ battle_log' = w.battle_log
    /\ button_manager' = w.button_manager
    /\ encounter' =
         IF op = "start_battle" THEN NewEncounter(w.hero)
         ELSE [encounter EXCEPT
                 !.signals = @ + (IF op = "update_battle_state" /\ w.ret = "True"
                                  THEN 1 ELSE 0),
                 !.grants = @ + w.grants]

(* the hero handed to the battle manager: fresh, or worn from earlier fights *)
InitHeroes == {NewHero(HeroMaxHp, MaxEnergy, 50), NewHero(1, 1, 50)}

Init ==
    /\ turn = HERO_TURN
    /\ state = HOME
    /\ monster = NoMonster
    /\ hero \in InitHeroes
    /\ battle_log = <<>>
    /\ button_manager = FALSE
    /\ encounter = NewEncounter(hero)

DoStartBattle == \E m \in Monsters : Commit(StartBattle(World, m), "start_battle")

DoUpdateBattleState == Commit(UpdateBattleState(World), "update_battle_state")

DoUpdateButtonStates ==
    \E roll \in RollsFor :
        Commit(UpdateButtonStates(World, roll), "update_button_states")

DoHandleMonsterAttack ==
    \E roll \in RollsFor :
        Commit(HandleMonsterAttack(World, roll), "handle_monster_attack")

DoHandleAbility ==
    \E a \in AbilityArgs \cup {"None"} : \E effect \in EffectsFor(a), roll \in RollsFor :
        Commit(HandleAbility(World, a, effect, roll), "handle_ability")

DoUseAbility ==
    \E a \in AbilityArgs : \E effect \in EffectsFor(a), roll \in RollsFor :
        Commit(UseAbility(World, a, effect, roll), "use_ability")

DoHandleRest ==
    \E roll \in RollsFor : Commit(HandleRest(World, roll), "handle_rest")

DoHandleUsePotion == Commit(HandleUsePotion(World), "handle_use_potion")

DoUsePotion ==
    \E p \in PotionNames, roll \in RollsFor :
        Commit(UsePotion(World, p, roll), "use_potion")

DoHandleFlee == Commit(HandleFlee(World), "handle_flee")

Next ==
    \/ DoStartBattle
    \/ DoUpdateBattleState
    \/ DoUpdateButtonStates
    \/ DoHandleMonsterAttack
    \/ DoHandleAbility
    \/ DoUseAbility
    \/ DoHandleRest
    \/ DoHandleUsePotion
    \/ DoUsePotion
    \/ DoHandleFlee

Spec == Init /\ [][Next]_vars

(* ---------------------------------------------------------------------- *)
(* Every call the game loop can make, applied to the current state         *)
(* ---------------------------------------------------------------------- *)
Call(op, arg) == [op |-> op, arg |-> arg]

Calls ==
    {Call("update_battle_state", "None"), Call("update_button_states", "None"),
     Call("handle_monster_attack", "None"), Call("handle_rest", "None"),
     Call("handle_use_potion", "None"), Call("handle_flee", "None")}
    \cup {Call("start_battle", m.name) : m \in Monsters}
    \cup {Call("handle_ability", a) : a \in AbilityArgs \cup {"None"}}
    \cup {Call("use_ability", a) : a \in AbilityArgs}
    \cup {Call("use_potion", p) : p \in PotionNames}

(* the world after call c made in world w0, with the ability's effect and   *)
(* the armour's roll                                                        *)
ApplyTo(w0, c, effect, roll) ==
    CASE c.op = "start_battle" ->
            StartBattle(w0, CHOOSE m \in Monsters : m.name = c.arg)
      [] c.op = "update_battle_state" -> UpdateBattleState(w0)
      [] c.op = "update_button_states" -> UpdateButtonStates(w0, roll)
      [] c.op = "handle_monster_attack" -> HandleMonsterAttack(w0, roll)
      [] c.op = "handle_rest" -> HandleRest(w0, roll)
      [] c.op = "handle_use_potion" -> HandleUsePotion(w0)
      [] c.op = "handle_flee" -> HandleFlee(w0)
      [] c.op = "handle_ability" -> HandleAbility(w0, c.arg, effect, roll)
      [] c.op = "use_ability" -> UseAbility(w0, c.arg, effect, roll)
      [] OTHER -> UsePotion(w0, c.arg, roll)

(* the world after call c made in the current state *)
Apply(c, effect, roll) == ApplyTo(World, c, effect, roll)

(* P(c, w) for every call c and every outcome w it can have from here *)
ForEveryCall(P(_, _)) ==
    \A c \in Calls : \A effect \in EffectsFor(c.arg), roll \in RollsFor :
        P(c, Apply(c, effect, roll))

Range(seq) == {seq[i] : i \in DOMAIN seq}

Last(seq) == seq[Len(seq)]

LoggedKinds == {battle_log[i].kind : i \in DOMAIN battle_log}

(* the entries a call appended, given the world it produced *)
Appended(w) == SubSeq(w.battle_log, Len(battle_log) + 1, Len(w.battle_log))

Kinds(seq) == [i \in DOMAIN seq |-> seq[i].kind]

(* this step is the call that produced w *)
Stepped(w) ==
    /\ turn' = w.turn
    /\ state' = w.state
    /\ monster' = w.monster
    /\ hero' = w.hero
    /\ battle_log' = w.battle_log
    /\ button_manager' = w.button_manager

(* a hero action that takes the hero's turn: rest, a potion, an ability that resolved *)
TurnConsuming(c, w) ==
    \/ c.op \in {"handle_rest", "use_potion"}
    \/ c.op \in {"use_ability", "handle_ability"} /\ w.used # "None"

IsToggle(c) ==
    \/ c.op = "handle_use_potion"
    \/ c.op = "handle_ability" /\ c.arg = "None"

(* ---------------------------------------------------------------------- *)
(* C1  turn alternation                                                    *)
(* ---------------------------------------------------------------------- *)
C1_LeavesHeroTurnOnlyInAction(c, w) ==
    MONSTER_TURN \in Range(w.trace) =>
        /\ turn = HERO_TURN
        /\ TurnConsuming(c, w)
        /\ w.trace[1] = MONSTER_TURN

C1_TogglesKeepTurn(c, w) ==
    IsToggle(c) => w.trace = <<>> /\ w.turn = turn

C1_FlipBackInCall(c, w) ==
    MONSTER_TURN \in Range(w.trace) => w.trace = <<MONSTER_TURN, HERO_TURN>>

C1_FlipBackWhenAlive(c, w) ==
    MONSTER_TURN \in Range(w.trace) =>
        IF HasLivingMonster(w)
        THEN w.trace = <<MONSTER_TURN, HERO_TURN>> /\ w.turn = HERO_TURN
        ELSE w.trace = <<MONSTER_TURN>> /\ w.turn = MONSTER_TURN

C1_OnlyStartBattleUnsticks(c, w) ==
    turn = MONSTER_TURN /\ w.turn # turn => c.op = "start_battle" /\ w.turn = HERO_TURN

C1_AsStated(c, w) ==
    /\ C1_LeavesHeroTurnOnlyInAction(c, w)
    /\ C1_FlipBackInCall(c, w)
    /\ C1_TogglesKeepTurn(c, w)

C1_Amended(c, w) ==
    /\ C1_LeavesHeroTurnOnlyInAction(c, w)
    /\ C1_FlipBackWhenAlive(c, w)
    /\ C1_OnlyStartBattleUnsticks(c, w)
    /\ C1_TogglesKeepTurn(c, w)

(* C1 as stated: in every call, turn leaves HERO_TURN only inside a         *)
(* turn-consuming hero action, every such flip to MONSTER_TURN is followed  *)
(* by the flip back to HERO_TURN, and the submenu toggles never change turn.*)
C1_Original ==
    [][\A c \in Calls : \A effect \in EffectsFor(c.arg), roll \in RollsFor :
          LET w == Apply(c, effect, roll)
          IN Stepped(w) => C1_AsStated(c, w)]_vars

(* C1 amended: turn leaves HERO_TURN only inside a turn-consuming hero      *)
(* action (handle_rest, use_potion, a successful use_ability); the flip is  *)
(* followed in the same call by the flip back to HERO_TURN when the monster *)
(* is alive after the action, and otherwise turn stays MONSTER_TURN until   *)
(* start_battle sets it to HERO_TURN; the submenu toggles never change turn.*)
C1_TurnAlternates == ForEveryCall(C1_Amended)

(* a rest has been answered by the monster, the turn is the hero's again,   *)
(* and the ability submenu has since been opened without consuming it       *)
C1_Witness ==
    /\ Len(battle_log) >= 3
    /\ battle_log[Len(battle_log) - 1].kind = "rests"
    /\ Last(battle_log).kind = "attacks"
    /\ turn = HERO_TURN
    /\ state = USE_ABILITY

(* ---------------------------------------------------------------------- *)
(* C2  no monster turn outlives the call that caused it                    *)
(* ---------------------------------------------------------------------- *)
(* C2 as stated: whenever a public call has returned, turn = HERO_TURN.     *)
C2_Original == turn = HERO_TURN

C2_HeroTurnOrNoMonster(c, w) == w.turn = HERO_TURN \/ ~HasLivingMonster(w)

C2_ResolvedInCall(c, w) ==
    HasLivingMonster(w) /\ MONSTER_TURN \in Range(w.trace) =>
        w.attacks = 1 /\ Last(w.trace) = HERO_TURN

C2_Amended(c, w) == C2_HeroTurnOrNoMonster(c, w) /\ C2_ResolvedInCall(c, w)

(* C2 amended: whenever a public call returns, turn = HERO_TURN unless the  *)
(* monster is absent or not alive; a monster turn against a living monster  *)
(* is resolved (one attack, flip back) inside the hero action that caused   *)
(* it, while after an action that killed the monster, or with no monster    *)
(* set, turn is left at MONSTER_TURN.                                       *)
C2_MonsterTurnResolved ==
    /\ turn = HERO_TURN \/ ~HasLivingMonster(World)
    /\ ForEveryCall(C2_Amended)

(* an ability has been used on a living monster and answered by its attack  *)
C2_Witness ==
    /\ HasLivingMonster(World)
    /\ turn = HERO_TURN
    /\ Len(battle_log) >= 3
    /\ battle_log[Len(battle_log) - 1].kind \in {"missed", "dealing", "gaining"}
    /\ Last(battle_log).kind = "attacks"

(* the program's own state in a world record *)
Prog(w) ==
    [turn |-> w.turn, state |-> w.state, monster |-> w.monster, hero |-> w.hero,
     battle_log |-> w.battle_log, button_manager |-> w.button_manager]

ActionHandlers ==
    {"handle_ability", "use_ability", "handle_rest", "handle_use_potion", "use_potion",
     "handle_flee", "handle_monster_attack"}

(* ---------------------------------------------------------------------- *)
(* C3  the defeat is signalled and rewarded once per encounter             *)
(* ---------------------------------------------------------------------- *)
C3_SignalGrants(c, w) ==
    c.op = "update_battle_state" =>
        IF w.ret = "True"
        THEN /\ w.grants = 1
             /\ w.hero = AddGold(GainExperience(hero, monster.experience), monster.gold)
             /\ w.state = MONSTER_DEFEATED
        ELSE w.grants = 0 /\ w.hero = hero

C3_LaterPollsInert ==
    encounter.signals = 1 =>
        LET w == UpdateBattleState(World)
        IN w.ret = "None" /\ ~w.raised /\ Prog(w) = Prog(World)

(* C3: within one encounter update_battle_state returns True at most once,  *)
(* the hero is granted the monster's experience and gold exactly once, and  *)
(* every later poll returns None and changes nothing.                       *)
C3_DefeatOnce ==
    /\ encounter.signals <= 1
    /\ encounter.grants = encounter.signals
    /\ hero.gold = encounter.gold0 + encounter.signals * monster.gold
    /\ ForEveryCall(C3_SignalGrants)
    /\ C3_LaterPollsInert

(* the defeat has been signalled and rewarded in this encounter *)
C3_Witness ==
    /\ encounter.signals = 1
    /\ state = MONSTER_DEFEATED
    /\ hero.gold > encounter.gold0
    /\ Last(battle_log).kind = "gains"

(* ---------------------------------------------------------------------- *)
(* C4  MONSTER_DEFEATED is entered on a dead monster and is terminal       *)
(* ---------------------------------------------------------------------- *)
C4_EnteredOnZeroHealth(c, w) ==
    w.state = MONSTER_DEFEATED /\ state # MONSTER_DEFEATED =>
        /\ c.op = "update_battle_state"
        /\ monster.present /\ monster.hp = 0
        /\ w.monster = monster

C4_HandlersInert(c, w) ==
    state = MONSTER_DEFEATED /\ c.op \in ActionHandlers =>
        /\ w.state = state
        /\ w.turn = turn
        /\ w.hero = hero
        /\ w.battle_log = battle_log

C4_OnlyStartBattleLeaves(c, w) ==
    state = MONSTER_DEFEATED /\ w.state # state =>
        c.op = "start_battle" /\ w.state = HOME

C4_Terminal(c, w) ==
    /\ C4_EnteredOnZeroHealth(c, w)
    /\ C4_HandlersInert(c, w)
    /\ C4_OnlyStartBattleLeaves(c, w)

(* C4: battle_state becomes MONSTER_DEFEATED only where the monster's       *)
(* health is zero; once there, no action handler changes battle_state,      *)
(* turn, hero or battle_log, and only start_battle leaves the state.        *)
C4_DefeatedTerminal ==
    /\ state = MONSTER_DEFEATED => monster.present /\ monster.hp = 0
    /\ ForEveryCall(C4_Terminal)

(* the victory state has been entered, with the button manager set so that *)
(* no handler is inert for want of it                                       *)
C4_Witness ==
    /\ state = MONSTER_DEFEATED
    /\ button_manager
    /\ monster.hp = 0
    /\ IsAlive(hero)

(* ---------------------------------------------------------------------- *)
(* C5  an ability on cooldown is refused with one log line                 *)
(* ---------------------------------------------------------------------- *)
C5_Refused(a, w) ==
    /\ w.hero = hero
    /\ w.turn = turn /\ w.trace = <<>>
    /\ w.state = state
    /\ w.monster = monster
    /\ w.attacks = 0
    /\ Len(w.battle_log) = Len(battle_log) + 1
    /\ w.battle_log = Append(battle_log, Msg("cooldown", "", a, 0))

(* C5: use_ability(name) on the hero's turn in USE_ABILITY with a living    *)
(* monster, for an ability whose cooldown is > 0, whatever the hero's       *)
(* energy, changes neither energy, turn, battle_state, the monster nor any  *)
(* cooldown and appends exactly one entry, the "still on cooldown" message. *)
C5_CooldownRefusal ==
    \A a \in AbilityNames :
        (turn = HERO_TURN /\ state = USE_ABILITY /\ HasLivingMonster(World)
            /\ hero.cooldowns[a] > 0) =>
        \A effect \in Effects(a), roll \in ArmorRolls :
            /\ C5_Refused(a, UseAbility(World, a, effect, roll))
            /\ C5_Refused(a, HandleAbility(World, a, effect, roll))

(* an ability on cooldown, which the hero could not pay for either, has     *)
(* just been refused                                                        *)
C5_Witness ==
    /\ turn = HERO_TURN /\ state = USE_ABILITY /\ HasLivingMonster(World)
    /\ Len(battle_log) > 0
    /\ Last(battle_log).kind = "cooldown"
    /\ hero.cooldowns[Last(battle_log).what] > 0
    /\ hero.energy < Abilities[Last(battle_log).what].energy_cost

(* ---------------------------------------------------------------------- *)
(* C6  an ability use is all or nothing                                    *)
(* ---------------------------------------------------------------------- *)
C6_FullyResolved(a, w) ==
    /\ a \in AbilityNames
    /\ w.used = a
    /\ w.hero.energy = hero.energy - Abilities[a].energy_cost
    /\ \A b \in AbilityNames \ {a} : w.hero.cooldowns[b] = Max(0, hero.cooldowns[b] - 1)
    /\ w.hero.cooldowns[a] = Max(0, Abilities[a].cooldown - 1)
    /\ w.state = HOME
    /\ w.trace[1] = MONSTER_TURN
    /\ IF MonsterAlive(w.monster)
       THEN w.attacks = 1 /\ w.trace = <<MONSTER_TURN, HERO_TURN>> /\ w.turn = HERO_TURN
       ELSE w.attacks = 0 /\ w.trace = <<MONSTER_TURN>> /\ w.turn = MONSTER_TURN

C6_Rejected(w) ==
    /\ w.used = "None"
    /\ w.hero = hero
    /\ w.monster = monster
    /\ w.turn = turn /\ w.trace = <<>>
    /\ w.state = state
    /\ w.attacks = 0

PendingBlockIn(c, effect) ==
    CASE c.op = "use_potion" /\ c.arg = "Block Potion"
            /\ hero.potion_bag["Block Potion"] > 0 -> PotionBlockBonus
      [] c.op \in {"use_ability", "handle_ability"} -> hero.potion_block + effect.block
      [] OTHER -> hero.potion_block

C7_Attack(c, effect, w) ==
    IF w.attacks > 0
    THEN /\ w.attacks = 1
         /\ w.block_at_attack = PendingBlockIn(c, effect)
         /\ w.dealt = Max(0, monster.damage - PendingBlockIn(c, effect))
         /\ Last(w.battle_log) = Msg("attacks", monster.name, hero.name, w.dealt)
         /\ w.hero.potion_block = 0
    ELSE c.op = "handle_monster_attack" =>
            /\ w.hero.current_hp = hero.current_hp
            /\ w.hero.potion_block = hero.potion_block

C8_Case == turn = HERO_TURN /\ HasLivingMonster(World) /\ hero.potion_block = 0

C8_TurnAndLog(w) ==
    /\ w.turn = HERO_TURN
    /\ w.state = HOME
    /\ Len(Appended(w)) = 2
    /\ Appended(w)[1] = Msg("rests", hero.name, "", 0)
    /\ Appended(w)[2] = Msg("attacks", monster.name, hero.name, monster.damage)

(* C8 as stated: the rest ends with turn = HERO_TURN and battle_state =      *)
(* HOME, lowers hero health by exactly monster.damage and appends exactly    *)
(* the rest line and the monster attack line.                                *)
C8_Original ==
    [][C8_Case =>
         \A roll \in ArmorRolls :
            LET w == HandleRest(World, roll)
            IN Stepped(w) =>
                 /\ C8_TurnAndLog(w)
                 /\ w.hero.current_hp = hero.current_hp - monster.damage]_vars

(* C8 amended: the rest ends with turn = HERO_TURN and battle_state = HOME,  *)
(* hands exactly monster.damage to Hero.take_damage, which lowers hero       *)
(* health by what the armour lets through of it (at most monster.damage,     *)
(* and never below zero), and appends exactly the rest line and the monster  *)
(* attack line, in that order.                                               *)
C8_RestThenAttack ==
    C8_Case =>
        \A roll \in ArmorRolls :
            LET w == HandleRest(World, roll)
            IN /\ C8_TurnAndLog(w)
               /\ w.dealt = monster.damage
               /\ w.hero.current_hp =
                     Max(0, hero.current_hp - CalculateDefence(monster.damage, roll))
               /\ w.hero.current_hp <= hero.current_hp
               /\ hero.current_hp - w.hero.current_hp <= monster.damage
               /\ w.hero.potion_block = 0

(* the hero has rested and the monster has struck for its full damage, of   *)
(* which the hero lost less                                                 *)
C8_Witness ==
    /\ Len(battle_log) = 3
    /\ battle_log[1].kind = "appears"
    /\ battle_log[2].kind = "rests"
    /\ battle_log[3] = Msg("attacks", monster.name, hero.name, monster.damage)
    /\ turn = HERO_TURN /\ state = HOME
    /\ hero.max_hp - hero.current_hp \in 1 .. monster.damage - 1

(* ---------------------------------------------------------------------- *)
(* C9  fleeing                                                             *)
(* ---------------------------------------------------------------------- *)
(* C9: handle_flee on the hero's turn returns true and sets battle_state =   *)
(* RUN_AWAY without changing turn, hero, monster or battle_log and without   *)
(* a monster attack; on the monster's turn it returns false and changes     *)
(* nothing.                                                                 *)
C9_Flee ==
    LET w == HandleFlee(World)
    IN IF turn = HERO_TURN
       THEN /\ w.ret = "True"
            /\ w.state = RUN_AWAY
            /\ Prog(w) = [Prog(World) EXCEPT !.state = RUN_AWAY]
            /\ w.attacks = 0 /\ w.trace = <<>>
       ELSE /\ w.ret = "False"
            /\ Prog(w) = Prog(World)
            /\ w.attacks = 0 /\ w.trace = <<>>

(* the hero has fled from a living monster out of a submenu-capable battle  *)
C9_Witness ==
    /\ state = RUN_AWAY
    /\ turn = HERO_TURN
    /\ HasLivingMonster(World)
    /\ button_manager

(* ---------------------------------------------------------------------- *)
(* C10  a health potion never heals past max_hp                            *)
(* ---------------------------------------------------------------------- *)
C10_PotionHeals ==
    LET h == HeroUsePotion(hero, "Health Potion")
    IN IF hero.potion_bag["Health Potion"] > 0
       THEN h.current_hp = Min(hero.max_hp, hero.current_hp + HealAmount)
       ELSE h.current_hp = hero.current_hp

C10_ManagerUsePotion ==
    \A roll \in ArmorRolls :
        LET w == UsePotion(World, "Health Potion", roll)
        IN /\ w.hero.current_hp <= w.hero.max_hp
           /\ w.hero.max_hp = hero.max_hp
           /\ w.healed # -1 =>
                 /\ w.healed = HeroUsePotion(hero, "Health Potion").current_hp
                 /\ w.healed <= hero.max_hp
                 /\ w.hero.current_hp <= w.healed

(* C10: with current_hp <= max_hp, use_potion("Health Potion") leaves        *)
(* current_hp <= max_hp: health becomes min(max_hp, current_hp + 5) when a   *)
(* potion is available and is unchanged otherwise, so hero health never      *)
(* exceeds max_hp.                                                           *)
C10_HealCapped ==
    /\ hero.current_hp <= hero.max_hp
    /\ C10_PotionHeals
    /\ C10_ManagerUsePotion

(* a health potion has been drunk, the monster has had its turn, and the    *)
(* hero stands at exactly max_hp, not above                                  *)
C10_Witness ==
    /\ \E i \in DOMAIN battle_log :
          battle_log[i].kind = "used" /\ battle_log[i].what = "Health Potion"
    /\ hero.potion_bag["Health Potion"] < InitHealthPotions
    /\ hero.current_hp = hero.max_hp
    /\ Last(battle_log).kind = "attacks"

(* ---------------------------------------------------------------------- *)
(* C11  calls with illegal timing are silent no-ops                        *)
(* ---------------------------------------------------------------------- *)
HeroHandlers ==
    {"handle_ability", "use_ability", "handle_rest", "handle_use_potion", "use_potion",
     "handle_flee"}

IllegalTiming(c) ==
    \/ c.op \in HeroHandlers /\ turn # HERO_TURN
    \/ c.op = "use_potion" /\ state # USE_ITEM
    \/ c.op = "use_ability" /\ state # USE_ABILITY
    \/ c.op = "handle_ability" /\ c.arg # "None" /\ state # USE_ABILITY
    \/ c.op = "handle_monster_attack" /\ turn # MONSTER_TURN

(* the call raised nothing, changed no field, resolved no monster turn and *)
(* made no call on the buttons                                              *)
SilentNoOp(w) ==
    /\ ~w.raised
    /\ Prog(w) = Prog(World)
    /\ w.buttons = World.buttons
    /\ w.trace = <<>>
    /\ w.attacks = 0

C11_NoOp(c, w) == IllegalTiming(c) => SilentNoOp(w)

(* C11: every action handler called when turn # HERO_TURN, use_potion       *)
(* outside USE_ITEM, use_ability (also reached through handle_ability with  *)
(* a name) outside USE_ABILITY, and handle_monster_attack when turn #       *)
(* MONSTER_TURN raise no error and leave turn, battle_state, hero, monster  *)
(* and battle_log unchanged.                                                *)
C11_IllegalTimingNoOp == ForEveryCall(C11_NoOp)

(* it is the monster's turn (the monster is dead), the button manager is    *)
(* set, and the hero has the potions and the energy an action would use     *)
C11_Witness ==
    /\ turn = MONSTER_TURN
    /\ button_manager
    /\ monster.present
    /\ HasPotions(hero)
    /\ hero.energy >= 1
    /\ IsAlive(hero)

(* ---------------------------------------------------------------------- *)
(* C12  calls made while no monster is set                                 *)
(* ---------------------------------------------------------------------- *)
GameLoopCalls ==
    {"update_battle_state", "handle_rest", "use_potion", "use_ability", "handle_ability",
     "handle_use_potion", "handle_flee", "handle_monster_attack"}

C12_NoOp(c, w) ==
    c.op \in GameLoopCalls =>
        /\ ~w.raised
        /\ w.turn = turn
        /\ w.hero = hero
        /\ w.battle_log = battle_log

(* C12: while no monster is set, every call offered to the game loop        *)
(* raises no error and leaves turn, hero and battle_log unchanged.          *)
C12_NoMonsterNoOp == ~monster.present => ForEveryCall(C12_NoOp)

(* ---------------------------------------------------------------------- *)
(* C13  use_potion on an empty slot                                        *)
(* ---------------------------------------------------------------------- *)
C13_Case(p) ==
    /\ turn = HERO_TURN /\ state = USE_ITEM /\ button_manager
    /\ hero.potion_bag[p] = 0

C13_Rejected(w) ==
    /\ Len(Appended(w)) = 1
    /\ w.hero = hero
    /\ w.state = state
    /\ w.turn = turn /\ w.trace = <<>>
    /\ w.attacks = 0

(* C13: use_potion(name) in USE_ITEM on the hero's turn for a potion whose  *)
(* count is 0 appends a log message and changes nothing else: potion counts,*)
(* hero health, pending bonuses, battle_state and turn are unchanged, the   *)
(* turn is not consumed and the monster does not attack.                    *)
C13_EmptySlotRejected ==
    \A p \in PotionNames :
        C13_Case(p) => \A roll \in RollsFor : C13_Rejected(UsePotion(World, p, roll))

(* ---------------------------------------------------------------------- *)
(* C14  the battle log is append-only                                      *)
(* ---------------------------------------------------------------------- *)
IsPrefix(s1, s2) == Len(s1) <= Len(s2) /\ SubSeq(s2, 1, Len(s1)) = s1

C14_Extends(c, w) == w.battle_log = battle_log \/ IsPrefix(battle_log, w.battle_log)

(* C14: the log after any call has the log before that call as a prefix:    *)
(* no entry is removed, replaced or reordered, not even by start_battle.    *)
C14_LogAppendOnly == ForEveryCall(C14_Extends)

(* a second encounter has begun on top of the log of the first              *)
C14_Witness ==
    /\ Len(battle_log) >= 3
    /\ battle_log[1].kind = "appears"
    /\ Last(battle_log).kind = "appears"

(* ---------------------------------------------------------------------- *)
(* C15  update_button_states and the game                                  *)
(* ---------------------------------------------------------------------- *)
(* the game a world holds, and what a call made of it *)
Game(w) ==
    [turn |-> w.turn, state |-> w.state, monster |-> w.monster, hero |-> w.hero,
     battle_log |-> w.battle_log]

Outcome(w) == [game |-> Game(w), ret |-> w.ret, raised |-> w.raised]

HandlerCalls == {c \in Calls : c.op \in ActionHandlers}

C15_GameUntouched(w) ==
    /\ ~w.raised
    /\ Game(w) = Game(World)
    /\ w.trace = <<>>
    /\ w.attacks = 0

(* every action handler call made after w behaves as it does made now *)
C15_LaterCallsAlike(w) ==
    \A c \in HandlerCalls : \A effect \in EffectsFor(c.arg), roll \in RollsFor :
        Outcome(ApplyTo(w, c, effect, roll)) = Outcome(Apply(c, effect, roll))

(* C15 as stated: update_button_states leaves turn, battle_state, the hero, *)
(* the monster and battle_log unchanged and does not change how any later   *)
(* action handler call behaves.                                             *)
C15_Original ==
    \A r \in RollsFor :
        LET w == UpdateButtonStates(World, r)
        IN C15_GameUntouched(w) /\ C15_LaterCallsAlike(w)

GatedHandlers == {"handle_ability", "use_ability", "handle_use_potion", "use_potion"}

C15_GateClosed ==
    ~button_manager =>
        \A c \in HandlerCalls : \A effect \in EffectsFor(c.arg), roll \in RollsFor :
            c.op \in GatedHandlers => Game(Apply(c, effect, roll)) = Game(World)

(* a second call leaves the manager and the buttons as the first left them *)
C15_Idempotent(w, r) ==
    LET w2 == UpdateButtonStates(w, r)
    IN Prog(w2) = Prog(w) /\ w2.buttons = w.buttons

(* C15 amended: update_button_states, at any time and any number of times,  *)
(* leaves turn, battle_state, the hero, the monster and battle_log          *)
(* unchanged and never resolves a monster turn; it stores the button        *)
(* manager, and so the first call enables handle_ability, use_ability,      *)
(* handle_use_potion and use_potion, which change nothing before it; once   *)
(* the button manager is stored a call does not change how any later action *)
(* handler call behaves, and a repeated call changes nothing.               *)
C15_ButtonRefreshHarmless ==
    /\ C15_GateClosed
    /\ \A r \in RollsFor :
          LET w == UpdateButtonStates(World, r)
          IN /\ C15_GameUntouched(w)
             /\ w.button_manager
             /\ Prog(w) = Prog(UpdateButtonStates(World, "hit"))
             /\ C15_Idempotent(w, r)
    /\ button_manager => C15_LaterCallsAlike(UpdateButtonStates(World, "hit"))

(* the button manager is stored and turn rests at MONSTER_TURN over a dead  *)
(* monster outside MONSTER_DEFEATED: a call of update_button_states here    *)
(* takes the branch that starts the monster turn                            *)
C15_Witness ==
    /\ button_manager
    /\ turn = MONSTER_TURN
    /\ state = HOME
    /\ monster.present /\ ~MonsterAlive(monster)
    /\ IsAlive(hero)

(* ---------------------------------------------------------------------- *)
(* C16  the button configuration update_button_states leaves               *)
(* ---------------------------------------------------------------------- *)
(* the current state with the buttons in state b *)
WorldWith(b) == [World EXCEPT !.buttons = b]

(* the buttons as update_button_states left them in an earlier situation:  *)
(* turn t and battle state s, from buttons untouched until then             *)
ButtonsLeftIn(t, s) ==
    UpdateButtonStates([World EXCEPT !.turn = t, !.state = s, !.monster = NoMonster],
                       "hit").buttons

(* the buttons as a toggle handler called in HOME left them *)
ButtonsLeftByToggles ==
    {HandleUsePotion([World EXCEPT !.state = HOME, !.turn = HERO_TURN,
                                   !.button_manager = TRUE]).buttons,
     HandleAbility([World EXCEPT !.state = HOME, !.turn = HERO_TURN,
                                 !.button_manager = TRUE],
                   "None", NoEffect, "hit").buttons}

EarlierButtons ==
    {InitButtons} \cup {ButtonsLeftIn(t, s) : t \in TurnState, s \in BattleState}
        \cup ButtonsLeftByToggles

(* the part of the buttons the claim speaks of *)
Configuration(b) ==
    [locked |-> b.locked, showing_potions |-> b.showing_potions,
     potion_locked |-> b.potion_locked, ability_buttons |-> b.ability_buttons]

(* C16: after update_button_states returns, the locks of Ability, Rest,     *)
(* Potion, Flee, Continue and Retreat, the visibility of the two submenus   *)
(* and the locks of the submenu buttons depend only on turn, battle_state   *)
(* and the hero: from any two earlier button states the call ends with the  *)
(* same configuration.                                                      *)
C16_FullyRecomputed ==
    button_manager =>
        \A b1 \in EarlierButtons, b2 \in EarlierButtons : \A r \in RollsFor :
            Configuration(UpdateButtonStates(WorldWith(b1), r).buttons)
                = Configuration(UpdateButtonStates(WorldWith(b2), r).buttons)

(* ---------------------------------------------------------------------- *)
(* C17  start_battle                                                       *)
(* ---------------------------------------------------------------------- *)
C17_Started(m, w) ==
    /\ ~w.raised
    /\ w.monster = m
    /\ w.state = HOME
    /\ w.turn = HERO_TURN
    /\ Appended(w) = <<Msg("appears", m.name, "", 0)>>
    /\ IsPrefix(battle_log, w.battle_log)
    /\ w.hero = hero
    /\ w.attacks = 0

(* C17: start_battle(monster), in whatever turn and battle_state it is      *)
(* called, ends with monster set to the argument, battle_state = HOME and   *)
(* turn = HERO_TURN, appends exactly one arrival line and leaves the hero   *)
(* (health, energy, potion counts, pending block, cooldowns) unchanged.     *)
C17_StartBattleResets == \A m \in Monsters : C17_Started(m, StartBattle(World, m))

(* a new monster has arrived right after the last one was killed, that is   *)
(* while turn was resting at MONSTER_TURN: it is the hero's turn again      *)
C17_Witness ==
    /\ Len(battle_log) >= 3
    /\ Last(battle_log).kind = "appears"
    /\ battle_log[Len(battle_log) - 1].kind \in {"dealing", "critical"}
    /\ turn = HERO_TURN /\ state = HOME
    /\ HasLivingMonster(World)
    /\ hero.cooldowns["Fireball"] > 0

(* ---------------------------------------------------------------------- *)
(* C18  the submenu toggles                                                *)
(* ---------------------------------------------------------------------- *)
OwnSubmenu(c) == IF c.op = "handle_use_potion" THEN USE_ITEM ELSE USE_ABILITY

C18_Toggle(c, w) ==
    IsToggle(c) =>
        /\ \/ w.state = state
           \/ state = HOME /\ w.state = OwnSubmenu(c)
           \/ state = OwnSubmenu(c) /\ w.state = HOME
        /\ state \notin {HOME, OwnSubmenu(c)} => w.state = state
        /\ w.turn = turn /\ w.trace = <<>>
        /\ w.hero = hero
        /\ w.monster = monster
        /\ w.battle_log = battle_log

(* C18: handle_ability() with no name changes battle_state only HOME ->     *)
(* USE_ABILITY or USE_ABILITY -> HOME, handle_use_potion() only HOME ->     *)
(* USE_ITEM or USE_ITEM -> HOME; from any other battle_state they leave it  *)
(* unchanged, and they never change turn, hero, monster or battle_log.      *)
C18_TogglesOwnSubmenu == ForEveryCall(C18_Toggle)

(* ---------------------------------------------------------------------- *)
(* C19  the monster acts once per hero turn taken, and only then           *)
(* ---------------------------------------------------------------------- *)
(* the call took the hero's turn: it set turn to MONSTER_TURN *)
TookTurn(c, w) == TurnConsuming(c, w) /\ MONSTER_TURN \in Range(w.trace)

(* the calls that take the hero's turn when made with legal timing *)
C19_LegalActionTakesTurn(c, w) ==
    /\ c.op = "handle_rest" /\ turn = HERO_TURN => TookTurn(c, w)
    /\ (c.op = "use_potion" /\ turn = HERO_TURN /\ state = USE_ITEM /\ button_manager)
            => TookTurn(c, w)
    /\ w.used # "None" => TookTurn(c, w)

AttackLines(w) == {i \in DOMAIN Appended(w) : Appended(w)[i].kind = "attacks"}

C19_MonsterActs(c, w) ==
    /\ C19_LegalActionTakesTurn(c, w)
    /\ w.attacks = (IF TookTurn(c, w) /\ HasLivingMonster(w) THEN 1 ELSE 0)
    /\ Cardinality(AttackLines(w)) = w.attacks
    /\ ~TookTurn(c, w) => w.hero.current_hp >= hero.current_hp

(* C19: the monster attacks only inside a turn-consuming hero action        *)
(* (handle_rest, use_potion, a successful use_ability), exactly once per    *)
(* such action when it is alive afterwards and never when it is dead or     *)
(* absent; no other call lowers hero health or appends a monster-attack     *)
(* line.                                                                    *)
C19_MonsterActsOnce == ForEveryCall(C19_MonsterActs)

(* a Damage Potion has been drunk and the monster has answered with one     *)
(* attack that got through                                                  *)
C19_Witness ==
    /\ Len(battle_log) >= 3
    /\ battle_log[Len(battle_log) - 1].kind = "used"
    /\ battle_log[Len(battle_log) - 1].what = "Damage Potion"
    /\ Last(battle_log).kind = "attacks"
    /\ Last(battle_log).n > 0
    /\ hero.current_hp < hero.max_hp
    /\ turn = HERO_TURN

(* ---------------------------------------------------------------------- *)
(* C20  the cooldown tick                                                  *)
(* ---------------------------------------------------------------------- *)
(* the cooldown of a after call c: an ability used in the call starts its   *)
(* cooldown before the tick                                                 *)
TickedCooldown(a, w) ==
    Max(0, (IF w.used = a THEN Abilities[a].cooldown ELSE hero.cooldowns[a]) - 1)

C20_Tick(c, w) ==
    c.op \in HeroHandlers =>
        \A a \in AbilityNames :
            w.hero.cooldowns[a] =
                IF TookTurn(c, w) THEN TickedCooldown(a, w) ELSE hero.cooldowns[a]

(* C20: each turn-consuming hero action (handle_rest, use_potion, a         *)
(* successful use_ability) decrements every nonzero cooldown exactly once,  *)
(* with floor zero, and the calls that do not consume the turn never change *)
(* a cooldown.                                                              *)
C20_CooldownTicksEachTurn == ForEveryCall(C20_Tick)

(* ---------------------------------------------------------------------- *)
(* C21  use_potion with the potion in the bag                              *)
(* ---------------------------------------------------------------------- *)
C21_Case(p) == turn = HERO_TURN /\ state = USE_ITEM /\ hero.potion_bag[p] > 0

(* the count of p drops by one, the others stay, none goes below zero; the  *)
(* usage line is appended first; battle_state is HOME; a living monster has *)
(* its turn resolved, once                                                  *)
C21_Used(p, w) ==
    /\ w.hero.potion_bag =
          [q \in PotionNames |->
              IF q = p THEN hero.potion_bag[q] - 1 ELSE hero.potion_bag[q]]
    /\ \A q \in PotionNames : w.hero.potion_bag[q] \in Nat
    /\ Len(Appended(w)) >= 1
    /\ Appended(w)[1] = Msg("used", hero.name, p, 0)
    /\ w.state = HOME
    /\ w.trace[1] = MONSTER_TURN
    /\ IF HasLivingMonster(World)
       THEN w.attacks = 1 /\ w.turn = HERO_TURN /\ Last(w.battle_log).kind = "attacks"
       ELSE w.attacks = 0 /\ w.turn = MONSTER_TURN /\ Len(Appended(w)) = 1

(* the pending block of the potion meets the attack of the same call *)
C21_BlockMeetsAttack(w) ==
    HasLivingMonster(World) =>
        /\ w.block_at_attack = PotionBlockBonus
        /\ w.dealt = Max(0, monster.damage - PotionBlockBonus)
        /\ w.hero.potion_block = 0

C21_PotionUsed ==
    \A p \in PotionNames :
        C21_Case(p) =>
            \A roll \in RollsFor :
                LET w == UsePotion(World, p, roll)
                IN /\ C21_Used(p, w)
                   /\ p = "Block Potion" =>
                         /\ C21_BlockMeetsAttack(w)
                         /\ ~HasLivingMonster(World) =>
                               w.hero.potion_block = PotionBlockBonus

C22_Defeat(w) ==
    /\ w.state = MONSTER_DEFEATED
    /\ w.grants = 1
    /\ w.hero = AddGold(GainExperience(hero, monster.experience), monster.gold)
    /\ Kinds(Appended(w)) = <<"defeated", "gains">>

C22_Unchanged(w) == Prog(w) = Prog(World) /\ w.grants = 0 /\ w.trace = <<>>

C22_Signal(w) ==
    /\ ~w.raised
    /\ w.ret \in {"True", "False", "None"}
    /\ IF state # MONSTER_DEFEATED
       THEN /\ w.ret = "False" <=> ~IsAlive(hero)
            /\ monster.present =>
                  /\ w.ret = "True" <=> IsAlive(hero) /\ ~MonsterAlive(monster)
                  /\ w.ret = "None" <=> IsAlive(hero) /\ MonsterAlive(monster)
            /\ w.ret = "True" => C22_Defeat(w)
            /\ w.ret # "True" => C22_Unchanged(w)
       ELSE w.ret = "None" /\ C22_Unchanged(w)

(* C22: update_battle_state returns a signal determined by the current      *)
(* state only: outside MONSTER_DEFEATED it returns True, granting           *)
(* experience and gold and entering MONSTER_DEFEATED, iff the hero is alive *)
(* and the monster is not, False iff the hero is not alive, changing        *)
(* nothing, and None iff both are alive; in MONSTER_DEFEATED it returns     *)
(* None and changes nothing.                                                *)
C22_TriStateSignal == C22_Signal(UpdateBattleState(World))

(* ---------------------------------------------------------------------- *)
(* C23  use_ability without the energy, or without the ability             *)
(* ---------------------------------------------------------------------- *)
C23_Case == turn = HERO_TURN /\ state = USE_ABILITY /\ HasLivingMonster(World)

(* one entry appended and nothing else changed *)
C23_OnlyLogs(w, entry) ==
    /\ w.battle_log = Append(battle_log, entry)
    /\ w.hero = hero
    /\ w.monster = monster
    /\ w.state = state
    /\ w.turn = turn /\ w.trace = <<>>
    /\ w.attacks = 0
    /\ w.used = "None"

C23_Refused(a, w) ==
    IF a \notin AbilityNames
    THEN C23_OnlyLogs(w, Msg("unknown", hero.name, a, 0))
    ELSE (hero.cooldowns[a] = 0 /\ hero.energy < Abilities[a].energy_cost) =>
            C23_OnlyLogs(w, Msg("energy", "", a, 0))

(* the statement, of the current state *)
C23_RefusedHere ==
    /\ hero.energy >= 0
    /\ \A a \in AbilityArgs : \A effect \in EffectsFor(a), roll \in RollsFor :
          LET w == UseAbility(World, a, effect, roll)
          IN /\ w.hero.energy >= 0
             /\ C23_Case => C23_Refused(a, w)

(* C23: use_ability(name) in USE_ABILITY on the hero's turn with a living   *)
(* monster, for a known ability off cooldown that costs more energy than    *)
(* the hero has, appends exactly one insufficient-energy entry and changes  *)
(* nothing else; for a name the hero does not have it appends exactly one   *)
(* "doesn't know" entry and changes nothing else; hero energy never becomes *)
(* negative through ability use.                                            *)
C23_EnergyRefusal == []C23_RefusedHere

(* an ability the hero cannot pay for and a name the hero does not have     *)
(* have just been refused, one entry each                                   *)
C23_Witness ==
    /\ C23_Case
    /\ Len(battle_log) >= 2
    /\ battle_log[Len(battle_log) - 1].kind = "energy"
    /\ hero.cooldowns[battle_log[Len(battle_log) - 1].what] = 0
    /\ hero.energy < Abilities[battle_log[Len(battle_log) - 1].what].energy_cost
    /\ Last(battle_log) = Msg("unknown", hero.name, "Smite", 0)

(* ---------------------------------------------------------------------- *)
(* C24  the message of a successful ability use                            *)
(* ---------------------------------------------------------------------- *)
(* every Effect record with amounts up to MaxEffectAmount *)
EffectSpace ==
    [damage : 0..MaxEffectAmount, healing : 0..MaxEffectAmount,
     block : 0..MaxEffectAmount, missed : BOOLEAN, critical : BOOLEAN]

(* the five conditions in the order of their priority, with the message     *)
(* each stands for                                                          *)
C24_Condition(e, i) ==
    CASE i = 1 -> e.missed
      [] i = 2 -> e.critical
      [] i = 3 -> e.damage > 0
      [] i = 4 -> e.healing > 0
      [] OTHER -> e.block > 0

C24_Message(a, e, i) ==
    CASE i = 1 -> Msg("missed", hero.name, a, 0)
      [] i = 2 -> Msg("critical", hero.name, a, e.damage)
      [] i = 3 -> Msg("dealing", hero.name, a, e.damage)
      [] i = 4 -> Msg("restoring", hero.name, a, e.healing)
      [] OTHER -> Msg("gaining", hero.name, a, e.block)

C24_FirstThatHolds(a, e) ==
    \A i \in 1..5 :
        (C24_Condition(e, i) /\ \A j \in 1..(i - 1) : ~C24_Condition(e, j)) =>
            EffectMessage(World, a, e) = <<C24_Message(a, e, i)>>

C24_MonsterLines == {"blocks", "attacks"}

(* a use that resolved appended its one message first, and after it only    *)
(* the lines of the monster's attack                                        *)
C24_MessageFirst(a, effect, w) ==
    w.used # "None" =>
        /\ Len(Appended(w)) >= 1
        /\ Appended(w)[1] = EffectMessage(World, a, effect)[1]
        /\ Appended(w)[1].kind \notin C24_MonsterLines
        /\ \A i \in 2..Len(Appended(w)) : Appended(w)[i].kind \in C24_MonsterLines

(* the statement, of the current state *)
C24_MessagesHere ==
    \A a \in AbilityNames :
        (C23_Case /\ button_manager /\ AbilityRequirement(World, a) = "ok") =>
            /\ \A e \in EffectSpace : C24_FirstThatHolds(a, e)
            /\ \A effect \in Effects(a), roll \in RollsFor :
                  LET w == UseAbility(World, a, effect, roll)
                  IN w.used = a /\ C24_MessageFirst(a, effect, w)

(* C24: a successful use_ability logs exactly one ability message, chosen   *)
(* from the produced Effect by the priority miss, critical, damage > 0,     *)
(* healing > 0, block > 0: for every combination of the five fields the     *)
(* first condition that holds decides the message; the message is appended  *)
(* before any monster-attack line of the same call.                         *)
C24_MessagePriority == []C24_MessagesHere

(* an ability has missed and the monster has answered: the ability's line   *)
(* stands right before the attack line                                      *)
C24_Witness ==
    /\ Len(battle_log) >= 2
    /\ battle_log[Len(battle_log) - 1].kind = "missed"
    /\ Last(battle_log).kind = "attacks"
    /\ hero.cooldowns[battle_log[Len(battle_log) - 1].what] > 0
    /\ state = HOME /\ turn = HERO_TURN

(* ---------------------------------------------------------------------- *)
(* C25  the buttons after update_button_states                             *)
(* ---------------------------------------------------------------------- *)
PotionSubmenuVisible(b) == b.showing_potions

AbilitySubmenuVisible(b) == \E a \in AbilityNames : b.ability_buttons[a] # "absent"

(* the button states the call can find: untouched before the first call,   *)
(* afterwards whatever an earlier call left                                 *)
ButtonsFound == IF button_manager THEN EarlierButtons ELSE {InitButtons}

C25_After(w) ==
    LET b == w.buttons
    IN /\ w.state = MONSTER_DEFEATED =>
             /\ \A n \in CombatButtons : b.locked[n]
             /\ \A n \in VictoryButtons : ~b.locked[n]
       /\ w.state # MONSTER_DEFEATED =>
             \A n \in VictoryButtons : b.locked[n] /\ ~b.visible[n]
       /\ (w.turn = HERO_TURN /\ w.state = HOME) =>
             /\ \A n \in {"Ability", "Rest", "Flee"} : ~b.locked[n]
             /\ ~b.locked["Potion"] <=> HasPotions(w.hero)
       /\ PotionSubmenuVisible(b) <=> (w.turn = HERO_TURN /\ w.state = USE_ITEM)
       /\ AbilitySubmenuVisible(b) <=> (w.turn = HERO_TURN /\ w.state = USE_ABILITY)
       /\ ~(PotionSubmenuVisible(b) /\ AbilitySubmenuVisible(b))

(* C25: after update_button_states returns, in MONSTER_DEFEATED Ability,    *)
(* Rest, Potion and Flee are locked and Continue and Retreat unlocked;      *)
(* otherwise Continue and Retreat are locked and hidden; on the hero's turn *)
(* in HOME Ability, Rest and Flee are unlocked and Potion is unlocked iff   *)
(* the hero holds a potion; the potion submenu is visible iff turn =        *)
(* HERO_TURN and battle_state = USE_ITEM, the ability submenu iff turn =    *)
(* HERO_TURN and battle_state = USE_ABILITY, never both.                    *)
C25_ButtonsAfterUpdate ==
    \A b \in ButtonsFound : \A r \in RollsFor :
        C25_After(UpdateButtonStates(WorldWith(b), r))

(* ---------------------------------------------------------------------- *)
(* C26  where turn rests at MONSTER_TURN                                   *)
(* ---------------------------------------------------------------------- *)
(* the statement, of the current state *)
C26_AtRest ==
    /\ turn = MONSTER_TURN => ~monster.present \/ ~MonsterAlive(monster)
    /\ (monster.present /\ MonsterAlive(monster)) => turn = HERO_TURN
    /\ state = MONSTER_DEFEATED => turn = MONSTER_TURN

(* C26: in every state reached by start_battle with a living monster and    *)
(* the handlers, turn = MONSTER_TURN only while the monster is absent or    *)
(* not alive, so no living monster is ever left waiting to act, and         *)
(* battle_state = MONSTER_DEFEATED implies turn = MONSTER_TURN.             *)
C26_MonsterTurnAtRest == []C26_AtRest

(* the monster was killed by an ability, the defeat has been polled and     *)
(* rewarded, and turn still rests at MONSTER_TURN over the dead monster     *)
C26_Witness ==
    /\ state = MONSTER_DEFEATED
    /\ turn = MONSTER_TURN
    /\ monster.present /\ ~MonsterAlive(monster)
    /\ Len(battle_log) >= 3
    /\ battle_log[Len(battle_log) - 2].kind \in {"dealing", "critical"}
    /\ Last(battle_log).kind = "gains"

(* ---------------------------------------------------------------------- *)
(* C27  the gate of the button manager                                     *)
(* ---------------------------------------------------------------------- *)
(* with no button manager stored: the four gated handlers do nothing,       *)
(* battle_state leaves HOME only in handle_flee, the turn is taken only in  *)
(* handle_rest, and only update_button_states stores the button manager     *)
C27_Closed(c, w) ==
    /\ c.op \in GatedHandlers => SilentNoOp(w)
    /\ (state = HOME /\ w.state # HOME) => c.op = "handle_flee"
    /\ MONSTER_TURN \in Range(w.trace) => c.op = "handle_rest"
    /\ w.button_manager <=> c.op = "update_button_states"

(* once stored, the button manager stays stored in every later call *)
C27_StaysOpen == button_manager => button_manager'

(* C27: until update_button_states has been called (button_manager unset),  *)
(* handle_ability, use_ability, handle_use_potion and use_potion are silent *)
(* no-ops in every state, so battle_state can leave HOME only through       *)
(* handle_flee and the only turn-consuming action is handle_rest; after the *)
(* first update_button_states call the gate stays open for the rest of the  *)
(* manager's life, across start_battle calls.                               *)
C27_ButtonManagerGate ==
    /\ [](~button_manager => ForEveryCall(C27_Closed))
    /\ [][C27_StaysOpen]_vars

(* a potion was used, a later start_battle began a new fight, and the       *)
(* potion submenu has been opened in it: the gate is still open             *)
C27_Witness ==
    /\ button_manager
    /\ Len(battle_log) >= 2
    /\ \E i \in 1..(Len(battle_log) - 1) : battle_log[i].kind = "used"
    /\ Last(battle_log).kind = "appears"
    /\ state = USE_ITEM /\ turn = HERO_TURN

====
